---- MODULE Spec2Model ----
(***************************************************************************)
(* Model of the AIVory Monitor Rust agent (src/src/lib.rs, config.rs,      *)
(* transport.rs).                                                          *)
(*                                                                         *)
(* The host side is an Agent (configuration, custom context, user mapping, *)
(* a transport::Connection) on which host threads call capture_error,      *)
(* set_context, set_user, start and stop.  The transport side is the       *)
(* background task spawned by Connection::connect, the sender and          *)
(* heartbeat tasks spawned by each connect_once, and the network.          *)
(*                                                                         *)
(* Every RwLock critical section of the code is one atomic step: no code   *)
(* holds a lock across an await or across another lock.  Steps of one      *)
(* thread that touch only thread-local data are merged into the adjacent   *)
(* step that touches shared data.                                          *)
(***************************************************************************)
EXTENDS Integers, Sequences, FiniteSets, TLC

\* ------------------------------------------------------------------ bounds
\* Largest value stored under a context key / in a user field.
MaxVal == 1
\* Number of calls to capture_error the host makes.
MaxCaptures == 1
\* Number of connections the endpoint accepts.
MaxConn == 1
\* Number of heartbeat messages the heartbeat tasks enqueue in total.
MaxHeartbeats == 1
\* Number of heartbeat messages enqueued where the order of the queue is observed.
MaxQueued == 2
\* The sampling rate 1.0, in the unit the model counts rates and draws in.
RateUnit == 2
\* Number of calls to init the host makes.
MaxInits == 2
\* Longest stack trace handed to calculate_fingerprint.
MaxStack == 7
\* Most frames of a Backtrace, and most symbols (inlined calls) of one frame.
MaxBtFrames == 26
MaxInlined == 3
\* Largest period of the internal symbols in a Backtrace.
MaxPattern == 3
\* Number of panics of host threads.
MaxPanics == 1
\* Number of connections the endpoint accepts where the duties of successive
\* connections are observed.
MaxReconn == 2

\* --------------------------------------------------------- program constants
\* transport.rs:63  let max_reconnect_attempts = 10;
max_reconnect_attempts == 10
\* transport.rs:86  reconnect_attempts.min(6)
MaxBackoffExp == 6
\* transport.rs:86  2u64.pow(..)
BackoffBase == 2
\* capture.rs:164, 169  frames.len() >= 50
MaxFrames == 50
\* capture.rs:192  added >= 5
MaxFingerprintFrames == 5

\* ------------------------------------------------------------------ values
\* Option<T>: None is {}, Some(v) is {v}.
None == {}
Some(v) == {v}
IsSome(o) == o # {}
Unwrap(o) == CHOOSE v \in o : TRUE

\* HashMap<String, _> is a function on its key set.
EmptyMap == [k \in {} |-> 0]
\* HashMap::insert: a later insert overwrites an earlier one on the same key.
Insert(m, k, v) == [x \in (DOMAIN m) \cup {k} |-> IF x = k THEN v ELSE m[x]]

\* serde_json::Value: a number, or the object json!(user.clone()).
JNum(n) == <<"num", n>>
JObj(m) == <<"obj", m>>

CtxKeys == {"a", "user"}
UserFields == {"id", "email", "username"}

\* Custom context mappings the host passes to set_context.
CustomVals == {JNum(n) : n \in 1..MaxVal}
CustomMaps == UNION {[S -> CustomVals] : S \in SUBSET CtxKeys}
\* Explicit context mappings the host passes to capture_error; their values
\* are distinct from every custom-context value, so a collision is visible.
ExplicitVals == {JNum(MaxVal + n) : n \in 1..MaxVal}
ExplicitMaps == UNION {[S -> ExplicitVals] : S \in SUBSET CtxKeys}
\* Option<&str> arguments of set_user.
OptStr == {None} \cup {Some(n) : n \in 1..(MaxVal + 1)}

\* Sampling rates: below 0.0, 0.0, inside (0,1), 1.0 and above 1.0.
Rates == (0 - 1)..(RateUnit + 1)
\* rand::random::<f64>() lies in [0.0, 1.0].
Draws == 0..RateUnit

Configs == [api_key_empty : BOOLEAN, url_ok : BOOLEAN, sampling_rate : Rates]

ConnIds == 1..MaxConn

\* The host threads that call init, one call each.
Inits == 1..MaxInits
\* Configurations passed to init: any credential and URL, sampling rate 1.0.
InitConfigs == {c \in Configs : c.sampling_rate = RateUnit}
\* The configuration slot while no Agent has been constructed.
NoConfig == [api_key_empty |-> TRUE, url_ok |-> FALSE, sampling_rate |-> 0]

\* Wire messages: OutgoingMessage.msg_type and, for "exception", the record id.
RegisterMsg == <<"register", 0, FALSE>>
\* Heartbeats carry their timestamp (transport.rs:164-169): the n-th differs
\* from every other.
HeartbeatMsg(n) == <<"heartbeat", n, FALSE>>
\* The third component is history: the record was handed to send_exception
\* while the transport was Disconnected.
ExceptionMsg(id, disc) == <<"exception", id, disc>>

VARIABLES
  config,             \* Agent.config
  started,            \* Agent::start has been called
  stopped,            \* Agent::stop has returned
  self_sender,        \* Connection.sender      (transport.rs:15)
  self_connected,     \* Connection.connected   (transport.rs:16)
  hooks,              \* number of panic::set_hook calls (lib.rs:138)
  AGENT,              \* static AGENT: OnceCell<Arc<Agent>> (lib.rs:35), as the agent's Config
  ipc,                \* init: per calling thread, its position and its argument
  rt,                 \* the Runtime of init's thread: "none", "spawned", "returned", "dropped"
  threads,            \* number of std::thread::spawn calls made by init
  panics,             \* number of panics of host threads so far
  bt,                 \* capture_stack_trace: the Backtrace, frames of symbols
  exception_type,     \* calculate_fingerprint: the failure kind
  stack_trace,        \* Vec<StackFrame>
  fingerprint,        \* the fingerprint computed
  ppc,                \* capture.rs functions: "none", "input" (arguments given), "done"
  custom_context,     \* Agent.custom_context
  user,               \* Agent.user
  lastSetUser,        \* history: arguments of the last set_user; whether it dropped a field
  cpc,                \* capture_error: position of the capturing thread
  cap,                \* capture_error: locals of the capturing thread
  captureCalls,       \* history: number of calls to capture_error
  nextId,             \* number of records built so far
  lastDisc,           \* history: nconn when a record was last handed to
                      \* send_exception while Disconnected; -1 if none was
  tpc,                \* background task of Connection::connect: position
  reconnect_attempts, \* transport.rs:62
  delay,              \* transport.rs:86, the last wait computed
  sender_slot,        \* transport.rs:55, the task's own Arc
  connected,          \* transport.rs:56, the task's own Arc
  nconn,              \* number of connections opened so far; the newest is the current one
  chan,               \* per connection: the mpsc channel's queue
  wire,               \* per connection: messages written to the WebSocket
  wsState,            \* per connection: "none", "open", "down", "dropped"
  senderTask,         \* per connection: sender task "none", "run", "done"
  hbTask,             \* per connection: heartbeat task "none", "run", "done"
  hbCount,            \* heartbeats enqueued so far
  enq,                \* history, per connection: every message accepted by its channel, in order
  lastEnd,            \* history: how the connect_once before the current wait ended
  failRun,            \* history: connection failures since the last connection that ended Ok
  afterFailures,      \* history: the newest connection was opened after a failure
  reported,           \* number of "Max reconnect attempts reached" reports
  lastMsg             \* last inbound message handled by the running read loop

globVars == <<AGENT, ipc, rt, threads, panics>>
pureVars == <<bt, exception_type, stack_trace, fingerprint, ppc>>
hostVars == <<config, started, stopped, self_sender, self_connected, hooks,
              globVars, pureVars>>
ctxVars == <<custom_context, user, lastSetUser>>
capVars == <<cpc, cap, captureCalls, nextId, lastDisc>>
taskVars == <<tpc, reconnect_attempts, delay, sender_slot, connected, nconn,
              lastEnd, failRun, afterFailures, reported, lastMsg>>
connVars == <<chan, wire, wsState, senderTask, hbTask, hbCount, enq>>
vars == <<hostVars, ctxVars, capVars, taskVars, connVars>>

\* ------------------------------------------------------------ config.rs
\* Config::should_sample with the draw of rand::random::<f64>() made explicit.
ShouldSampleNoFloor(rate, draw) ==
  IF rate >= RateUnit THEN TRUE ELSE draw <= rate

should_sample(rate, draw) ==
  IF rate >= RateUnit THEN TRUE
  ELSE IF rate <= 0 THEN FALSE
  ELSE draw < rate

\* ------------------------------------------------------------ lib.rs
\* The capturing thread's locals between calls: no record.
NoCap == [id |-> 0, context |-> EmptyMap, seenC |-> EmptyMap, seenU |-> EmptyMap,
          X |-> None, steps |-> 0]

\* for (k, v) in src { ctx.insert(k, v) }   (lib.rs:90-92, 105-107)
RECURSIVE InsertAll(_, _)
InsertAll(ctx, src) ==
  IF DOMAIN src = {} THEN ctx
  ELSE LET k == CHOOSE x \in DOMAIN src : TRUE
           rest == [x \in (DOMAIN src) \ {k} |-> src[x]]
       IN InsertAll(Insert(ctx, k, src[k]), rest)

\* lib.rs:88-93  Add custom context
AddCustom(ctx, custom) == InsertAll(ctx, custom)

\* lib.rs:96-101  Add user
AddUser(ctx, usr) ==
  IF DOMAIN usr # {} THEN Insert(ctx, "user", JObj(usr)) ELSE ctx

\* lib.rs:104-108  Add additional context
AddExplicitKeepExisting(ctx, X) ==
  IF IsSome(X)
  THEN LET src == Unwrap(X)
       IN [k \in (DOMAIN ctx) \cup (DOMAIN src) |->
             IF k \in DOMAIN ctx THEN ctx[k] ELSE src[k]]
  ELSE ctx

AddExplicit(ctx, X) ==
  IF IsSome(X) THEN InsertAll(ctx, Unwrap(X)) ELSE ctx

\* lib.rs:121-133  the user mapping after set_user(id, email, username)
UserAfterSetNoClear(old, id, email, username) ==
  LET m1 == IF IsSome(id) THEN Insert(old, "id", Unwrap(id)) ELSE old
      m2 == IF IsSome(email) THEN Insert(m1, "email", Unwrap(email)) ELSE m1
  IN IF IsSome(username) THEN Insert(m2, "username", Unwrap(username)) ELSE m2

UserAfterSet(old, id, email, username) ==
  LET m0 == EmptyMap
      m1 == IF IsSome(id) THEN Insert(m0, "id", Unwrap(id)) ELSE m0
      m2 == IF IsSome(email) THEN Insert(m1, "email", Unwrap(email)) ELSE m1
  IN IF IsSome(username) THEN Insert(m2, "username", Unwrap(username)) ELSE m2

\* The argument of set_user that belongs to field f.
ArgOf(f, id, email, username) ==
  IF f = "id" THEN id ELSE IF f = "email" THEN email ELSE username

\* lib.rs:115-118  Agent::set_context
SetContext(context) ==
  /\ custom_context' = context
  /\ UNCHANGED <<user, lastSetUser>>
  /\ UNCHANGED <<hostVars, capVars, taskVars, connVars>>

\* lib.rs:121-133  Agent::set_user
SetUser(id, email, username) ==
  /\ user' = UserAfterSet(user, id, email, username)
  /\ lastSetUser' = [called |-> TRUE, id |-> id, email |-> email,
                     username |-> username,
                     dropped |-> \E f \in DOMAIN user : ~IsSome(ArgOf(f, id, email, username))]
  /\ UNCHANGED custom_context
  /\ UNCHANGED <<hostVars, capVars, taskVars, connVars>>

\* The transport is Registered: the task holds a connection whose
\* registration message was written and is in its read loop.
Registered == tpc = "reading"
\* The transport is Disconnected: the task holds no connection (not spawned,
\* inside connect_async, in a backoff wait, or stopped after its last retry).
Disconnected == ~connected

\* A sender of the newest connection's channel, whether or not the task
\* still holds that connection.
StaleSender == IF nconn > 0 THEN Some(nconn) ELSE None

\* transport.rs:232  let sender = self.sender.read();
SenderRead == self_sender

\* transport.rs:232-243  send_exception never waits: with no sender published
\* it drops the record, and UnboundedSender::send returns at once.
SendWaitsForSender(sender) == IsSome(sender)

SendMayProceed(sender) == TRUE

\* lib.rs:80-93  Agent::capture_error up to the merge of the custom context:
\* the sampling decision, capture::capture_error, the read of custom_context.
CaptureBegin(X, draw) ==
  /\ cpc = "idle"
  /\ captureCalls < MaxCaptures
  /\ captureCalls' = captureCalls + 1
  /\ IF should_sample(config.sampling_rate, draw)
     THEN /\ nextId' = nextId + 1
          /\ cap' = [id |-> nextId + 1,
                     context |-> AddCustom(EmptyMap, custom_context),
                     seenC |-> custom_context, seenU |-> EmptyMap, X |-> X,
                     steps |-> 0]
          /\ cpc' = "user"
     ELSE UNCHANGED <<nextId, cap, cpc>>
  /\ UNCHANGED lastDisc
  /\ UNCHANGED <<hostVars, ctxVars, taskVars, connVars>>

\* The same part of capture_error with the loop of lib.rs:90-92 step by step.
\* lib.rs:80-89: the sampling decision, capture::capture_error, and
\* custom_context.read(), which the capturing thread holds while it merges.
CtxReadLock(X, draw) ==
  /\ cpc = "idle"
  /\ captureCalls < MaxCaptures
  /\ captureCalls' = captureCalls + 1
  /\ IF should_sample(config.sampling_rate, draw)
     THEN /\ nextId' = nextId + 1
          /\ cap' = [id |-> nextId + 1, context |-> EmptyMap,
                     seenC |-> custom_context, seenU |-> EmptyMap, X |-> X,
                     steps |-> 0]
          /\ cpc' = "merge"
     ELSE UNCHANGED <<nextId, cap, cpc>>
  /\ UNCHANGED lastDisc
  /\ UNCHANGED <<hostVars, ctxVars, taskVars, connVars>>

\* lib.rs:90-92  one iteration: a key of the stored mapping not yet merged.
CtxMergeKey(k) ==
  /\ cpc = "merge"
  /\ k \in (DOMAIN custom_context) \ (DOMAIN cap.context)
  /\ cap' = [cap EXCEPT !.context = Insert(@, k, custom_context[k])]
  /\ UNCHANGED <<cpc, captureCalls, nextId, lastDisc>>
  /\ UNCHANGED <<hostVars, ctxVars, taskVars, connVars>>

\* lib.rs:93  the loop is over and the read guard is dropped.
CtxReadUnlock ==
  /\ cpc = "merge"
  /\ (DOMAIN custom_context) \subseteq (DOMAIN cap.context)
  /\ cpc' = "user"
  /\ UNCHANGED <<cap, captureCalls, nextId, lastDisc>>
  /\ UNCHANGED <<hostVars, ctxVars, taskVars, connVars>>

\* lib.rs:116  custom_context.write() is granted while no thread holds the
\* read guard.
WriteIgnoresReaders == TRUE

WriteLockFree == cpc # "merge"

\* lib.rs:115-118  Agent::set_context from another thread than the capturing one.
SetContextLocked(context) ==
  /\ WriteLockFree
  /\ SetContext(context)

\* lib.rs:95-108  the read of user and the merge of the explicit context.
CaptureUser ==
  /\ cpc = "user"
  /\ cap' = [cap EXCEPT !.context = AddExplicit(AddUser(@, user), cap.X),
                        !.seenU = user,
                        !.steps = @ + 1]
  /\ cpc' = "send"
  /\ UNCHANGED <<captureCalls, nextId, lastDisc>>
  /\ UNCHANGED <<hostVars, ctxVars, taskVars, connVars>>

\* lib.rs:111 and transport.rs:231-244  Connection::send_exception, then return.
\* tx.send fails, and its error is ignored, when the receiver was dropped.
CaptureSend ==
  /\ cpc = "send"
  /\ SendMayProceed(SenderRead)
  /\ LET sender == SenderRead
         queued == IsSome(sender) /\ senderTask[Unwrap(sender)] # "done"
                                  /\ wsState[Unwrap(sender)] # "dropped"
     IN /\ chan' = IF queued
                   THEN [chan EXCEPT ![Unwrap(sender)] =
                           Append(@, ExceptionMsg(cap.id, Disconnected))]
                   ELSE chan
        /\ enq' = IF queued
                  THEN [enq EXCEPT ![Unwrap(sender)] =
                          Append(@, ExceptionMsg(cap.id, Disconnected))]
                  ELSE enq
        /\ lastDisc' = IF Disconnected THEN nconn ELSE lastDisc
  /\ cpc' = "idle"
  /\ cap' = NoCap
  /\ UNCHANGED <<captureCalls, nextId>>
  /\ UNCHANGED <<wire, wsState, senderTask, hbTask, hbCount>>
  /\ UNCHANGED <<hostVars, ctxVars, taskVars>>

\* lib.rs:74-77 and transport.rs:225-228  Agent::stop, Connection::disconnect
Stop ==
  /\ ~stopped
  /\ self_sender' = None
  /\ self_connected' = FALSE
  /\ stopped' = TRUE
  /\ UNCHANGED <<config, started, hooks, globVars, pureVars>>
  /\ UNCHANGED <<ctxVars, capVars, taskVars, connVars>>

\* transport.rs:111-175  no connection of ids has been opened: no socket, no
\* channel, no sender task and no heartbeat task.
InitConns(ids) ==
  /\ chan = [c \in ids |-> <<>>]
  /\ wire = [c \in ids |-> <<>>]
  /\ wsState = [c \in ids |-> "none"]
  /\ senderTask = [c \in ids |-> "none"]
  /\ hbTask = [c \in ids |-> "none"]
  /\ hbCount = 0
  /\ enq = [c \in ids |-> <<>>]

\* lib.rs:47-54 and transport.rs:37-42  the fields of a new Agent other than
\* its configuration, with no task running.
InitAgentFields ==
  /\ started = FALSE
  /\ stopped = FALSE
  /\ self_sender = None
  /\ self_connected = FALSE
  /\ hooks = 0
  /\ AGENT = None
  /\ rt = "none"
  /\ threads = 0
  /\ panics = 0
  /\ custom_context = EmptyMap
  /\ user = EmptyMap
  /\ lastSetUser = [called |-> FALSE, id |-> None, email |-> None,
                    username |-> None, dropped |-> FALSE]
  /\ cpc = "idle"
  /\ cap = NoCap
  /\ captureCalls = 0
  /\ nextId = 0
  /\ lastDisc = 0 - 1
  /\ tpc = "none"
  /\ reconnect_attempts = 0
  /\ delay = 0
  /\ sender_slot = None
  /\ connected = FALSE
  /\ nconn = 0
  /\ lastEnd = "none"
  /\ failRun = 0
  /\ afterFailures = FALSE
  /\ reported = 0
  /\ lastMsg = "none"

\* A new Agent, with nothing running and no connection opened.
InitAgentState ==
  /\ InitAgentFields
  /\ InitConns(ConnIds)

\* No function of capture.rs has been given arguments.
InitPure ==
  /\ bt = <<>>
  /\ exception_type = ""
  /\ stack_trace = <<>>
  /\ fingerprint = <<>>
  /\ ppc = "none"

\* The state after Agent::new(config), the host holding the Agent itself:
\* init is never called.
Init ==
  /\ config \in Configs
  /\ ipc = [c \in Inits |-> [pc |-> "done", cfg |-> NoConfig]]
  /\ InitPure
  /\ InitAgentState

\* ------------------------------------------------------------ transport.rs
RECURSIVE Pow(_, _)
Pow(b, e) == IF e = 0 THEN 1 ELSE b * Pow(b, e - 1)

Min(a, b) == IF a < b THEN a ELSE b

\* transport.rs:86  Duration::from_secs(2u64.pow(reconnect_attempts.min(6)))
BackoffDelayBeforeIncrement(attempts) ==
  Pow(BackoffBase, Min(attempts - 1, MaxBackoffExp))

BackoffDelay(attempts) == Pow(BackoffBase, Min(attempts, MaxBackoffExp))

\* transport.rs:66-69, 80  the counter after connect_once returned:
\* Ok(_) resets it, then it is incremented.
AttemptsAfterNoReset(ok, attempts) == attempts + 1

AttemptsAfter(ok, attempts) == (IF ok THEN 0 ELSE attempts) + 1

\* transport.rs:81  if reconnect_attempts > max_reconnect_attempts
GiveUpOneLate(attempts) == attempts > max_reconnect_attempts + 1

GiveUp(attempts) == attempts > max_reconnect_attempts

\* transport.rs:66-94  the reconnect loop from the return of connect_once to
\* the sleep or the break.  ok: connect_once returned Ok; kind: how it ended.
AfterConnectOnce(ok, kind) ==
  LET attempts == AttemptsAfter(ok, reconnect_attempts)
  IN /\ connected' = FALSE
     /\ sender_slot' = None
     /\ reconnect_attempts' = attempts
     /\ IF GiveUp(attempts)
        THEN /\ reported' = reported + 1
             /\ tpc' = "exhausted"
             /\ UNCHANGED delay
        ELSE /\ delay' = BackoffDelay(attempts)
             /\ tpc' = "sleeping"
             /\ UNCHANGED reported
     /\ lastEnd' = kind
     /\ lastMsg' = "none"
     /\ failRun' = IF kind \in {"closed", "error"} THEN 1 ELSE failRun + 1

\* lib.rs:57-71 and transport.rs:45-62  Agent::start, Connection::connect:
\* with an empty API key nothing happens; otherwise the panic hook is
\* installed and, when the URL parses, the background task is spawned.
StartAgent ==
  /\ ~started
  /\ started' = TRUE
  /\ hooks' = IF config.api_key_empty THEN hooks ELSE hooks + 1
  /\ IF config.api_key_empty \/ ~config.url_ok
     THEN UNCHANGED <<tpc, reconnect_attempts>>
     ELSE /\ tpc' = "connecting"
          /\ reconnect_attempts' = 0
  /\ UNCHANGED <<delay, sender_slot, connected, nconn, lastEnd, failRun,
                 afterFailures, reported, lastMsg>>
  /\ UNCHANGED <<config, stopped, self_sender, self_connected, pureVars>>
  /\ UNCHANGED <<ctxVars, capVars, connVars>>

\* Agent::start called by the host on a runtime that outlives the agent.
Start == StartAgent /\ UNCHANGED globVars

\* transport.rs:111  connect_async(..).await? returns Err
ConnectFail ==
  /\ tpc = "connecting"
  /\ AfterConnectOnce(FALSE, "refused")
  /\ UNCHANGED <<nconn, afterFailures>>
  /\ UNCHANGED <<hostVars, ctxVars, capVars, connVars>>

\* transport.rs:111-146  between connect_async and the registration write the
\* sender and heartbeat tasks of the connection do not exist yet: they are
\* spawned at 148 and 158.
DutiesSpawnedAtOpen == "run"

DutiesAtOpen == "none"

\* transport.rs:111-121  connect_async succeeds; the channel is created and
\* published in the task's sender_slot; connected is set.  limit: the
\* connections the endpoint accepts.
ConnectOkUpTo(limit) ==
  /\ tpc = "connecting"
  /\ nconn < limit
  /\ nconn' = nconn + 1
  /\ wsState' = [wsState EXCEPT ![nconn + 1] = "open"]
  /\ sender_slot' = Some(nconn + 1)
  /\ connected' = TRUE
  /\ tpc' = "registering"
  /\ afterFailures' = (failRun > 0)
  /\ UNCHANGED <<reconnect_attempts, delay, lastEnd, failRun, reported, lastMsg>>
  /\ senderTask' = [senderTask EXCEPT ![nconn + 1] = DutiesAtOpen]
  /\ hbTask' = [hbTask EXCEPT ![nconn + 1] = DutiesAtOpen]
  /\ UNCHANGED <<chan, wire, hbCount, enq>>
  /\ UNCHANGED <<hostVars, ctxVars, capVars>>

ConnectOk == ConnectOkUpTo(MaxConn)

\* transport.rs:124-175  the registration message is written; the sender task
\* and the heartbeat task are spawned.
RegisterSent ==
  /\ tpc = "registering"
  /\ wsState[nconn] = "open"
  /\ wire' = [wire EXCEPT ![nconn] = Append(@, RegisterMsg)]
  /\ senderTask' = [senderTask EXCEPT ![nconn] = "run"]
  /\ hbTask' = [hbTask EXCEPT ![nconn] = "run"]
  /\ tpc' = "reading"
  /\ UNCHANGED <<reconnect_attempts, delay, sender_slot, connected, nconn,
                 lastEnd, failRun, afterFailures, reported, lastMsg>>
  /\ UNCHANGED <<chan, wsState, hbCount, enq>>
  /\ UNCHANGED <<hostVars, ctxVars, capVars>>

\* transport.rs:141  write.send(register).await? returns Err: connect_once
\* returns with the stream and the receiver dropped.
RegisterFail ==
  /\ tpc = "registering"
  /\ wsState[nconn] = "down"
  /\ wsState' = [wsState EXCEPT ![nconn] = "dropped"]
  /\ chan' = [chan EXCEPT ![nconn] = <<>>]
  /\ AfterConnectOnce(FALSE, "regfail")
  /\ UNCHANGED <<nconn, afterFailures>>
  /\ UNCHANGED <<wire, senderTask, hbTask, hbCount, enq>>
  /\ UNCHANGED <<hostVars, ctxVars, capVars>>

\* transport.rs:187-191, 192-199, 206  an inbound message that leaves the
\* connection up: "registered", or "error" with a code that is not an
\* authentication code.
RecvInfo(kind) ==
  /\ tpc = "reading"
  /\ wsState[nconn] = "open"
  /\ lastMsg' = kind
  /\ UNCHANGED <<tpc, reconnect_attempts, delay, sender_slot, connected, nconn,
                 lastEnd, failRun, afterFailures, reported>>
  /\ UNCHANGED <<hostVars, ctxVars, capVars, connVars>>

\* transport.rs:192-204  "error" with code auth_error or invalid_api_key:
\* connect_once returns Err.  The write half stays with the sender task.
RecvAuthError ==
  /\ tpc = "reading"
  /\ wsState[nconn] = "open"
  /\ AfterConnectOnce(FALSE, "auth")
  /\ UNCHANGED <<nconn, afterFailures>>
  /\ UNCHANGED <<hostVars, ctxVars, capVars, connVars>>

\* transport.rs:210-216, 221  the read loop sees Close ("closed") or a read
\* error ("error") and connect_once returns Ok(()).
ReadEnds(kind) ==
  /\ tpc = "reading"
  /\ wsState[nconn] = "down"
  /\ AfterConnectOnce(TRUE, kind)
  /\ UNCHANGED <<nconn, afterFailures>>
  /\ UNCHANGED <<hostVars, ctxVars, capVars, connVars>>

\* transport.rs:93  tokio::time::sleep(delay) is over; the loop calls
\* connect_once again.
WakeUp ==
  /\ tpc = "sleeping"
  /\ tpc' = "connecting"
  /\ lastEnd' = "none"
  /\ UNCHANGED <<reconnect_attempts, delay, sender_slot, connected, nconn,
                 failRun, afterFailures, reported, lastMsg>>
  /\ UNCHANGED <<hostVars, ctxVars, capVars, connVars>>

\* transport.rs:149  rx.recv(): the channel hands out its oldest message ...
NextToWriteNewest(q) == q[Len(q)]

NextToWrite(q) == Head(q)

\* ... and removes it.
Dequeue(q) == Tail(q)

\* transport.rs:148-154  the sender task takes one message from the channel
\* and writes it; a failed write ends the task and drops the receiver.
SenderStep(c) ==
  /\ senderTask[c] = "run"
  /\ chan[c] # <<>>
  /\ IF wsState[c] = "open"
     THEN /\ wire' = [wire EXCEPT ![c] = Append(@, NextToWrite(chan[c]))]
          /\ chan' = [chan EXCEPT ![c] = Dequeue(@)]
          /\ UNCHANGED senderTask
     ELSE /\ senderTask' = [senderTask EXCEPT ![c] = "done"]
          /\ chan' = [chan EXCEPT ![c] = <<>>]
          /\ UNCHANGED wire
  /\ UNCHANGED <<wsState, hbTask, hbCount, enq>>
  /\ UNCHANGED <<hostVars, ctxVars, capVars, taskVars>>

\* transport.rs:158-175  the heartbeat task ticks: it enqueues a heartbeat,
\* or ends when the receiver is gone.  limit: the heartbeats observed.
HeartbeatTickUpTo(c, limit) ==
  /\ hbTask[c] = "run"
  /\ IF senderTask[c] = "done"
     THEN /\ hbTask' = [hbTask EXCEPT ![c] = "done"]
          /\ UNCHANGED <<chan, hbCount, enq>>
     ELSE /\ hbCount < limit
          /\ chan' = [chan EXCEPT ![c] = Append(@, HeartbeatMsg(hbCount + 1))]
          /\ enq' = [enq EXCEPT ![c] = Append(@, HeartbeatMsg(hbCount + 1))]
          /\ hbCount' = hbCount + 1
          /\ UNCHANGED hbTask
  /\ UNCHANGED <<wire, wsState, senderTask>>
  /\ UNCHANGED <<hostVars, ctxVars, capVars, taskVars>>

HeartbeatTick(c) == HeartbeatTickUpTo(c, MaxHeartbeats)

\* The network: the peer closes connection c, or the connection breaks.
NetDown(c) ==
  /\ wsState[c] = "open"
  /\ wsState' = [wsState EXCEPT ![c] = "down"]
  /\ UNCHANGED <<chan, wire, senderTask, hbTask, hbCount, enq>>
  /\ UNCHANGED <<hostVars, ctxVars, capVars, taskVars>>

\* The background task, the sender tasks it spawns, and the network.
TaskStep ==
  \/ ConnectFail
  \/ ConnectOk
  \/ RegisterSent
  \/ RegisterFail
  \/ \E kind \in {"registered", "error_other"} : RecvInfo(kind)
  \/ RecvAuthError
  \/ \E kind \in {"closed", "error"} : ReadEnds(kind)
  \/ WakeUp
  \/ \E c \in ConnIds : SenderStep(c)
  \/ \E c \in ConnIds : NetDown(c)

\* The background task, all the tasks it spawns, and the network.
TransportStep ==
  \/ TaskStep
  \/ \E c \in ConnIds : HeartbeatTick(c)

\* ------------------------------------------------------------ capture.rs
\* What no function of capture.rs touches.
notPure == <<config, started, stopped, self_sender, self_connected, hooks,
             globVars, ctxVars, capVars, taskVars, connVars>>

\* StackFrame, the fields the fingerprint reads (capture.rs:30-42).
Frame(name, line, native) ==
  [method_name |-> name, line_number |-> line, is_native |-> native]

\* Failure kinds: exception_type of capture_error, "panic" of capture_panic.
Kinds == {"Error", "panic"}

\* Stack frames given to calculate_fingerprint: a native one, and non-native
\* ones with and without a line number.
FpFrames == {Frame("f", Some(1), TRUE), Frame("f", Some(1), FALSE),
             Frame("g", None, FALSE)}
FpStacks == UNION {[1..n -> FpFrames] : n \in 0..MaxStack}

\* capture.rs:202  frame.line_number.unwrap_or(0)
LineOrZero(line) == IF IsSome(line) THEN Unwrap(line) ELSE 0

\* capture.rs:199-203  format!("{}:{}", method_name, line): a string is the
\* sequence of its pieces.
FormatFrame(frame) == <<frame.method_name, ":", LineOrZero(frame.line_number)>>

\* capture.rs:208  parts.join(":")
RECURSIVE Join(_)
Join(parts) ==
  IF Len(parts) = 0 THEN <<>>
  ELSE IF Len(parts) = 1 THEN Head(parts)
  ELSE Head(parts) \o <<":">> \o Join(Tail(parts))

\* capture.rs:207-210  the first 8 bytes of the SHA-256 digest, in hex, taken
\* as a function of the hashed string that tells different strings apart.
Sha256Hex8(str) == <<"sha256/8", str>>

\* capture.rs:195  if frame.is_native { continue; }
SkipNoFrame(frame) == FALSE

SkipFrame(frame) == frame.is_native

\* capture.rs:190-205  the loop over stack_trace from frame i on, with the
\* count of frames added and the parts collected so far.
RECURSIVE FingerprintParts(_, _, _, _)
FingerprintParts(frames, i, added, parts) ==
  IF i > Len(frames) THEN parts
  ELSE IF added >= MaxFingerprintFrames THEN parts
  ELSE IF SkipFrame(frames[i]) THEN FingerprintParts(frames, i + 1, added, parts)
  ELSE FingerprintParts(frames, i + 1, added + 1,
                        Append(parts, FormatFrame(frames[i])))

\* capture.rs:187-211
calculate_fingerprint(kind, frames) ==
  Sha256Hex8(Join(FingerprintParts(frames, 1, 0, <<<<kind>>>>)))

\* capture.rs:81, 101  the fingerprint of the given failure is calculated.
CalculateFingerprint ==
  /\ ppc = "input"
  /\ fingerprint' = calculate_fingerprint(exception_type, stack_trace)
  /\ ppc' = "done"
  /\ UNCHANGED <<bt, exception_type, stack_trace>>
  /\ UNCHANGED notPure

\* A symbol name is the sequence of its "::"-separated segments; a symbol
\* has a file path kind and a line number (capture.rs:130-159).
InternalCrates == {"std", "core", "backtrace", "aivory_monitor::capture"}
Symbol(g, internal, file) ==
  [name |-> <<IF internal THEN "std" ELSE "app", g>>, file |-> file,
   lineno |-> Some(g)]

\* Backtraces: n frames of k symbols each, most recent first, the symbols
\* numbered in order; with p > 0 every p-th symbol is of an internal crate.
\* The file path is absent, of the registry or of the application in turn.
FileOf(g) == IF g % 3 = 0 THEN "none" ELSE IF g % 3 = 1 THEN "registry" ELSE "app"
BacktraceOf(n, k, p) ==
  [i \in 1..n |->
     [j \in 1..k |->
        LET g == (i - 1) * k + j
        IN Symbol(g, p > 0 /\ g % p = 0, FileOf(g))]]
Backtraces ==
  {BacktraceOf(n, k, p) : n \in 0..MaxBtFrames, k \in 1..MaxInlined, p \in 0..MaxPattern}

\* capture.rs:136-142  Skip internal frames
IsInternal(symbol) == symbol.name[1] \in InternalCrates

\* capture.rs:177-185  the last "::" segment
extract_function_name(name) == name[Len(name)]

\* capture.rs:144  symbol.filename(), absent when the symbol has no path
FilePath(symbol) == IF symbol.file = "none" THEN None ELSE Some(symbol.file)

\* capture.rs:152  .unwrap_or(true): a symbol without a path counts as native
UnresolvedNotNative == FALSE

UnresolvedIsNative == TRUE

\* capture.rs:149-152  a path of the toolchain or the registry, or no path
IsNative(symbol) ==
  IF IsSome(FilePath(symbol)) THEN Unwrap(FilePath(symbol)) = "registry"
  ELSE UnresolvedIsNative

\* capture.rs:154-162  the StackFrame pushed for a symbol
StackFrameOf(symbol) ==
  [method_name |-> extract_function_name(symbol.name),
   file_path |-> FilePath(symbol),
   line_number |-> symbol.lineno,
   is_native |-> IsNative(symbol),
   source_available |-> ~IsNative(symbol) /\ IsSome(FilePath(symbol))]

\* capture.rs:164  if frames.len() >= 50 { break; }  in the loop over symbols
InnerNeverFull(frames) == FALSE

InnerFull(frames) == Len(frames) >= MaxFrames

\* capture.rs:129-167  the loop over the symbols of one frame, from symbol j.
RECURSIVE SymbolLoop(_, _, _)
SymbolLoop(symbols, j, frames) ==
  IF j > Len(symbols) THEN frames
  ELSE IF IsInternal(symbols[j]) THEN SymbolLoop(symbols, j + 1, frames)
  ELSE LET pushed == Append(frames, StackFrameOf(symbols[j]))
       IN IF InnerFull(pushed) THEN pushed
          ELSE SymbolLoop(symbols, j + 1, pushed)

\* capture.rs:128-172  the loop over the frames of the backtrace, from frame i.
RECURSIVE FrameLoop(_, _, _)
FrameLoop(trace, i, frames) ==
  IF i > Len(trace) THEN frames
  ELSE LET after == SymbolLoop(trace[i], 1, frames)
       IN IF Len(after) >= MaxFrames THEN after
          ELSE FrameLoop(trace, i + 1, after)

\* capture.rs:124-175
capture_stack_trace(trace) == FrameLoop(trace, 1, <<>>)

\* capture.rs:74, 100  the call stack is symbolized.
CaptureStackTrace ==
  /\ ppc = "input"
  /\ stack_trace' = capture_stack_trace(bt)
  /\ ppc' = "done"
  /\ UNCHANGED <<bt, exception_type, fingerprint>>
  /\ UNCHANGED notPure

\* ------------------------------------------------------ lib.rs, global agent
\* lib.rs:167  OnceCell::set fails when the cell is already full.
SetNeverFails(slot) == FALSE

SetFails(slot) == IsSome(slot)

\* A thread that is not inside init holds no argument.
Returned == [pc |-> "done", cfg |-> NoConfig]

\* lib.rs:164-170  init(config) of calling thread c up to AGENT.set: the
\* first call fills the cell with its Agent; a later call returns.
InitSet(c) ==
  /\ ipc[c].pc = "ready"
  /\ IF SetFails(AGENT)
     THEN /\ ipc' = [ipc EXCEPT ![c] = Returned]
          /\ UNCHANGED <<AGENT, config>>
     ELSE /\ ipc' = [ipc EXCEPT ![c].pc = "spawn"]
          /\ AGENT' = IF AGENT = None THEN Some(ipc[c].cfg) ELSE AGENT
          /\ config' = IF AGENT = None THEN ipc[c].cfg ELSE config
  /\ UNCHANGED <<started, stopped, self_sender, self_connected, hooks, rt,
                 threads, panics, pureVars>>
  /\ UNCHANGED <<ctxVars, capVars, taskVars, connVars>>

\* lib.rs:173-178  init spawns the thread that will run start.
InitSpawn(c) ==
  /\ ipc[c].pc = "spawn"
  /\ ipc' = [ipc EXCEPT ![c] = Returned]
  /\ threads' = threads + 1
  /\ rt' = "spawned"
  /\ UNCHANGED <<config, started, stopped, self_sender, self_connected, hooks,
                 AGENT, panics, pureVars>>
  /\ UNCHANGED <<ctxVars, capVars, taskVars, connVars>>

\* lib.rs:174-177  the thread creates a Runtime and block_on(agent.start())
\* returns.
ThreadStart ==
  /\ rt = "spawned"
  /\ StartAgent
  /\ rt' = "returned"
  /\ UNCHANGED <<AGENT, ipc, threads, panics>>

\* lib.rs:178  the closure ends and the Runtime is dropped: every task
\* spawned on it is cancelled and what the tasks own is dropped.
RuntimeDrop ==
  /\ rt = "returned"
  /\ rt' = "dropped"
  /\ tpc' = IF tpc \in {"none", "exhausted"} THEN tpc ELSE "cancelled"
  /\ sender_slot' = None
  /\ connected' = FALSE
  /\ senderTask' = [c \in ConnIds |-> IF senderTask[c] = "run" THEN "done" ELSE senderTask[c]]
  /\ hbTask' = [c \in ConnIds |-> IF hbTask[c] = "run" THEN "done" ELSE hbTask[c]]
  /\ wsState' = [c \in ConnIds |-> IF wsState[c] = "none" THEN "none" ELSE "dropped"]
  /\ chan' = [c \in ConnIds |-> <<>>]
  /\ UNCHANGED <<reconnect_attempts, delay, nconn, lastEnd, failRun,
                 afterFailures, reported, lastMsg>>
  /\ UNCHANGED <<wire, hbCount, enq>>
  /\ UNCHANGED <<config, started, stopped, self_sender, self_connected, hooks,
                 AGENT, ipc, threads, panics, pureVars>>
  /\ UNCHANGED <<ctxVars, capVars>>

\* ------------------------------------------------------------ specifications
\* capture_error's own steps after the call.
CaptureStep == CaptureUser \/ CaptureSend

\* The default sampling rate (config.rs:46): 1.0.
InitRateOne == Init /\ config.sampling_rate = RateUnit

\* An agent with sampling rate 1.0 that is started on a runtime that lives as
\* long as the host; a host thread that captures without explicit context;
\* stop after start.
Next ==
  \/ Start
  \/ (started /\ Stop)
  \/ \E draw \in Draws : CaptureBegin(None, draw)
  \/ CaptureUser
  \/ CaptureSend
  \/ TransportStep

Spec == InitRateOne /\ [][Next]_vars

\* Every sampling rate; the agent is started and never stopped.
NextSampling ==
  \/ Start
  \/ \E draw \in Draws : CaptureBegin(None, draw)
  \/ CaptureUser
  \/ CaptureSend
  \/ TransportStep

SpecSampling == Init /\ [][NextSampling]_vars

\* One host thread that calls capture_error, set_context and set_user one
\* after the other on an agent that was constructed and not started.
NextAgent ==
  \/ \E X \in {None} \cup {Some(m) : m \in ExplicitMaps}, draw \in Draws :
       CaptureBegin(X, draw)
  \/ CaptureUser
  \/ CaptureSend
  \/ (cpc = "idle" /\ \E m \in CustomMaps : SetContext(m))
  \/ (cpc = "idle" /\ \E id \in OptStr, email \in OptStr, username \in OptStr :
                        SetUser(id, email, username))

SpecAgent == Init /\ [][NextAgent]_vars

\* A capturing thread that runs concurrently with a thread that calls
\* set_context, set_user and stop, and with the transport: its connection
\* attempts, registrations, connection losses and reconnects, and the sender
\* and heartbeat tasks.  What the collector sends is left out: no step of
\* the host reads anything the read loop's message handling writes.
NextConc ==
  \/ Start
  \/ (started /\ Stop)
  \/ \E draw \in Draws : CaptureBegin(None, draw)
  \/ CaptureUser
  \/ CaptureSend
  \/ SetContext([k \in {"a"} |-> JNum(1)])
  \/ SetUser(Some(1), None, None)
  \/ ConnectFail
  \/ ConnectOk
  \/ RegisterSent
  \/ RegisterFail
  \/ \E kind \in {"closed", "error"} : ReadEnds(kind)
  \/ WakeUp
  \/ \E c \in ConnIds : SenderStep(c)
  \/ \E c \in ConnIds : HeartbeatTick(c)
  \/ \E c \in ConnIds : NetDown(c)

SpecConc == InitRateOne /\ [][NextConc]_vars

\* The host calls init from MaxInits threads; the thread spawned by the
\* winning call starts the agent on its own Runtime.
InitGlobal ==
  /\ config = NoConfig
  /\ ipc \in [Inits -> [pc : {"ready"}, cfg : InitConfigs]]
  /\ InitPure
  /\ InitAgentState

NextInit ==
  \/ \E c \in Inits : InitSet(c)
  \/ \E c \in Inits : InitSpawn(c)
  \/ ThreadStart
  \/ RuntimeDrop
  \/ TransportStep

SpecInit == InitGlobal /\ [][NextInit]_vars

\* The transport alone after start, with enough heartbeats for their order
\* on the queue and on the wire to show.
NextQueue ==
  \/ Start
  \/ TaskStep
  \/ \E c \in ConnIds : HeartbeatTickUpTo(c, MaxQueued)

SpecQueue == InitRateOne /\ [][NextQueue]_vars

\* One thread captures, key by key, while another calls set_context.
NextCtx ==
  \/ \E draw \in Draws : CtxReadLock(None, draw)
  \/ \E k \in CtxKeys : CtxMergeKey(k)
  \/ CtxReadUnlock
  \/ CaptureUser
  \/ CaptureSend
  \/ \E context \in CustomMaps : SetContextLocked(context)

SpecCtx == InitRateOne /\ [][NextCtx]_vars

\* calculate_fingerprint on every failure kind and stack trace of the bounds.
InitFingerprint ==
  /\ config = NoConfig
  /\ ipc = [c \in Inits |-> Returned]
  /\ InitAgentState
  /\ bt = <<>>
  /\ exception_type \in Kinds
  /\ stack_trace \in FpStacks
  /\ fingerprint = <<>>
  /\ ppc = "input"

NextFingerprint == CalculateFingerprint

SpecFingerprint == InitFingerprint /\ [][NextFingerprint]_vars

\* capture_stack_trace on every backtrace of the bounds.
InitStackTrace ==
  /\ config = NoConfig
  /\ ipc = [c \in Inits |-> Returned]
  /\ InitAgentState
  /\ bt \in Backtraces
  /\ exception_type = ""
  /\ stack_trace = <<>>
  /\ fingerprint = <<>>
  /\ ppc = "input"

NextStackTrace == CaptureStackTrace

SpecStackTrace == InitStackTrace /\ [][NextStackTrace]_vars

\* ------------------------------------------------------------ properties
\* An "exception" message of record id occurs in sequence q.
HasException(q, disc) ==
  \E i \in 1..Len(q) : q[i][1] = "exception" /\ q[i][3] = disc

\* The task holds a live registered connection: registration was written,
\* the duties run and the connection is up.
LiveRegistered ==
  /\ Registered
  /\ connected
  /\ wsState[nconn] = "open"
  /\ senderTask[nconn] = "run"

\* C1: with sampling rate 1.0, a capture made while the background task holds
\* a live registered connection enqueues exactly one record on that
\* connection's outbound queue.
C1_CaptureEnqueuesOnLiveConnection ==
  [][(/\ cpc = "send"
      /\ cpc' = "idle"
      /\ config.sampling_rate = RateUnit
      /\ ~stopped
      /\ LiveRegistered)
     => chan'[nconn] = Append(chan[nconn], ExceptionMsg(cap.id, FALSE))]_vars

\* C2: a record captured while the transport is Disconnected is dropped: no
\* "exception" message for it is queued for or written to any connection,
\* including connections established later.
C2_DroppedWhileDisconnected ==
  \A c \in ConnIds :
    /\ ~HasException(wire[c], TRUE)
    /\ ~HasException(chan[c], TRUE)

\* C2 witness: a record was captured while Disconnected, a connection was
\* established afterwards and has written its registration, and the capture
\* has returned.
C2_Witness ==
  /\ cpc = "idle"
  /\ lastDisc >= 0
  /\ nconn > lastDisc
  /\ Len(wire[nconn]) > 0
  /\ ~HasException(wire[nconn], TRUE)

\* C3: after stop has returned, no further connection attempt is made and no
\* further message is written to the wire.
C3_StopTerminatesTransport ==
  [][stopped => /\ wire' = wire
                /\ ~(tpc = "sleeping" /\ tpc' = "connecting")
                /\ nconn' = nconn]_vars

\* C4: with sampling rate <= 0.0 a call to capture builds no record, does not
\* call the transport and leaves the custom context, the user mapping and
\* the outbound queues unchanged; with sampling rate >= 1.0 every call is
\* accepted and builds a record.
C4_SamplingBoundaries ==
  [][captureCalls' # captureCalls =>
       /\ (config.sampling_rate <= 0 =>
             /\ cpc' = "idle"
             /\ UNCHANGED <<cap, nextId, lastDisc>>
             /\ UNCHANGED <<custom_context, user, chan, wire, self_sender>>)
       /\ (config.sampling_rate >= RateUnit =>
             /\ cpc' = "user"
             /\ nextId' = nextId + 1
             /\ cap'.id = nextId')]_vars

\* C4 witness: sampling rate <= 0.0, capture was called while a registered
\* connection was up, and no record exists.
C4_Witness ==
  /\ config.sampling_rate <= 0
  /\ captureCalls > 0
  /\ nextId = 0
  /\ cpc = "idle"
  /\ LiveRegistered

\* C5: a capture call never waits: in every reachable state in which a call
\* is under way (whatever the transport, the network, set_context, set_user
\* and stop have done) its next step can be taken at once, and it returns with
\* its second step after the call.
C5_CaptureNeverWaits ==
  cpc # "idle" =>
    /\ ENABLED CaptureStep
    /\ cap.steps <= 1
    /\ (cap.steps = 1 => ENABLED (CaptureSend /\ cpc' = "idle"))

\* C5 witness: a call has taken its first step and is about to send while
\* the background task is inside connect_async, after set_context, set_user
\* and stop have run.
C5_Witness ==
  /\ cpc = "send"
  /\ cap.steps = 1
  /\ stopped
  /\ tpc = "connecting"
  /\ DOMAIN custom_context # {}
  /\ DOMAIN user # {}

\* C6: the wait that follows the k-th consecutive failure is min(2^k, 64);
\* within a run of failures the waits do not decrease, and no wait exceeds 64.
C6_BackoffSchedule ==
  [][(tpc' = "sleeping" /\ tpc # "sleeping") =>
       /\ delay' = Min(Pow(2, failRun'), 64)
       /\ delay' <= 64
       /\ (failRun' > 1 => delay' >= delay)]_vars

\* C6 witness: a wait after the 7th consecutive failure, at the cap.
C6_Witness ==
  /\ tpc = "sleeping"
  /\ failRun = MaxBackoffExp + 1
  /\ delay = 64

\* C7 as stated: whenever a connection that sent its registration ends, by
\* peer close, read error or a backend error message, the next wait is the
\* minimum backoff.
C7_ResetAfterRegistrationSent ==
  (tpc = "sleeping" /\ lastEnd \in {"closed", "error", "auth"})
    => delay = BackoffDelay(1)

\* C7 amended: a registered connection that ends by peer close or read error
\* resets the counter, so the next wait is the minimum backoff however many
\* failures preceded; one that ends by an authentication error message does
\* not reset it and counts as one more consecutive failure.
C7_ResetAfterOkReturn ==
  [][(tpc = "reading" /\ tpc' # "reading") =>
       IF lastEnd' \in {"closed", "error"}
       THEN /\ reconnect_attempts' = 1
            /\ tpc' = "sleeping"
            /\ delay' = BackoffDelay(1)
       ELSE /\ lastEnd' = "auth"
            /\ reconnect_attempts' = reconnect_attempts + 1]_vars

\* C7 witness: a connection opened after failures has ended by peer close or
\* read error and the wait is the minimum backoff.
C7_Witness ==
  /\ tpc = "sleeping"
  /\ lastEnd \in {"closed", "error"}
  /\ afterFailures
  /\ delay = BackoffDelay(1)

\* C8 as stated: after 10 consecutive failures the transport has stopped
\* retrying.
C8_StopsAfterTenFailures ==
  failRun >= max_reconnect_attempts => tpc = "exhausted"

\* C8 amended: the transport stops retrying when the consecutive-failure
\* counter exceeds 10, that is after 11 consecutive failures (the first
\* attempt or the loss of a connection, then 10 failed reconnects); from then
\* on no connection attempt is made, the condition is reported exactly once,
\* and every send drops its record.
C8_StopsAfterCounterExceedsTen ==
  [][/\ (failRun' > max_reconnect_attempts => tpc' = "exhausted")
     /\ ((tpc' = "exhausted" /\ tpc # "exhausted") =>
           /\ failRun' = max_reconnect_attempts + 1
           /\ reported' = 1)
     /\ (tpc = "exhausted" =>
           /\ tpc' = "exhausted"
           /\ reported' = reported
           /\ nconn' = nconn
           /\ ((cpc = "send" /\ cpc' = "idle") => chan' = chan))]_vars

\* C8 witness: retries are exhausted, reported once, and a record is about to
\* be handed to send_exception.
C8_Witness ==
  /\ tpc = "exhausted"
  /\ reported = 1
  /\ cpc = "send"

\* The mapping held by an Option<HashMap>.
MapOf(X) == IF IsSome(X) THEN Unwrap(X) ELSE EmptyMap

\* C9: the context of a record is the custom context C overwritten by
\* {"user": U} (only when U is not empty) overwritten by the explicit context X.
C9_ContextPrecedence ==
  cpc = "send" =>
    LET C == cap.seenC
        U == cap.seenU
        X == MapOf(cap.X)
        ctx == cap.context
        userKey == IF DOMAIN U # {} THEN {"user"} ELSE {}
    IN /\ DOMAIN ctx = (DOMAIN C) \cup userKey \cup (DOMAIN X)
       /\ \A k \in DOMAIN ctx :
            ctx[k] = IF k \in DOMAIN X THEN X[k]
                     ELSE IF k \in userKey THEN JObj(U)
                     ELSE C[k]

\* C9 witness: custom context {a, user}, a user mapping with an id, and an
\* explicit context {a}: the record has the explicit a and the user object.
C9_Witness ==
  /\ cpc = "send"
  /\ DOMAIN cap.seenC = {"a", "user"}
  /\ DOMAIN cap.seenU = {"id"}
  /\ DOMAIN MapOf(cap.X) = {"a"}
  /\ cap.context["a"] = MapOf(cap.X)["a"]
  /\ cap.context["user"] = JObj(cap.seenU)

\* C10: the stored user mapping holds exactly the fields supplied as present
\* in the most recent set_user, with that call's values.
C10_UserReplaced ==
  IF lastSetUser.called
  THEN \A f \in UserFields :
         LET a == ArgOf(f, lastSetUser.id, lastSetUser.email, lastSetUser.username)
         IN /\ (f \in DOMAIN user) = IsSome(a)
            /\ (IsSome(a) => user[f] = Unwrap(a))
  ELSE user = EmptyMap

\* C10 witness: the last set_user supplied only an email and dropped a field
\* an earlier call had set.
C10_Witness ==
  /\ lastSetUser.called
  /\ lastSetUser.dropped
  /\ DOMAIN user = {"email"}

\* Everything but the positions of the threads calling init.
initRest == <<config, started, stopped, self_sender, self_connected, hooks,
              AGENT, rt, threads, panics, pureVars, ctxVars, capVars, taskVars,
              connVars>>

\* C11: init is idempotent, the first call wins.  The call that finds the
\* cell empty stores its own configuration; once the cell is full the global
\* agent and its configuration never change; a call that finds the cell full
\* returns having changed nothing (no agent state, no thread, no transport,
\* no hook); so at most one thread is spawned and one hook installed.
C11_InitFirstCallWins ==
  [][/\ (AGENT = None /\ AGENT' # None) =>
          \E c \in Inits : /\ ipc[c].pc = "ready"
                           /\ ipc'[c].pc = "spawn"
                           /\ AGENT' = Some(ipc[c].cfg)
                           /\ config' = ipc[c].cfg
     /\ AGENT # None => (AGENT' = AGENT /\ config' = config)
     /\ \A c \in Inits :
          (AGENT # None /\ ipc[c].pc = "ready" /\ ipc'[c] # ipc[c]) =>
             (ipc'[c] = Returned /\ initRest' = initRest)
     /\ threads' <= 1
     /\ hooks' <= 1]_vars

\* Every call has returned, the later ones having lost; the winner's thread
\* has started the agent, which holds a credential.
C11_Witness ==
  /\ \A c \in Inits : ipc[c] = Returned
  /\ MaxInits > 1
  /\ AGENT = Some(config)
  /\ threads = 1
  /\ hooks = 1
  /\ started

\* s is an initial segment of t.
IsPrefix(s, t) == Len(s) <= Len(t) /\ SubSeq(t, 1, Len(s)) = s

\* What connection c has written after its registration message.
Written(c) == IF wire[c] = <<>> THEN <<>> ELSE Tail(wire[c])

C13_SetContextAtomic ==
  /\ cpc = "user" => cap.context = cap.seenC
  /\ cpc = "merge" => custom_context = cap.seenC

\* A capture merged a mapping of two keys, and set_context has replaced it
\* by another mapping while the capture was still running.
C13_Witness ==
  /\ cpc = "user"
  /\ Cardinality(DOMAIN cap.context) = 2
  /\ cap.context = cap.seenC
  /\ custom_context # cap.seenC
  /\ custom_context # EmptyMap

\* C14: with an empty API key neither capture nor transport starts: no
\* panic hook is installed, the background task is never spawned, the
\* transport stays Disconnected, and the agent builds no record and enqueues
\* none.
C14_EmptyKeyNothingStarts ==
  config.api_key_empty =>
    /\ hooks = 0
    /\ tpc = "none"
    /\ Disconnected
    /\ nextId = 0
    /\ \A c \in ConnIds : enq[c] = <<>>

NonNative(frame) == ~frame.is_native

\* The first MaxFingerprintFrames non-native frames of a stack trace, each
\* reduced to its (function name, line-or-0) pair.
RECURSIVE PairsOnly(_)
PairsOnly(frames) ==
  IF frames = <<>> THEN <<>>
  ELSE <<Frame(Head(frames).method_name,
               Some(LineOrZero(Head(frames).line_number)), FALSE)>>
       \o PairsOnly(Tail(frames))

KeyFrames(frames) ==
  LET kept == SelectSeq(frames, NonNative)
  IN PairsOnly(SubSeq(kept, 1, Min(Len(kept), MaxFingerprintFrames)))

\* C15: the fingerprint is a function of the failure kind and of the
\* (function name, line-or-0) pairs of the first 5 non-native frames: it
\* equals the fingerprint of those pairs alone, whatever native frames and
\* later frames the stack trace holds; with no non-native frame it is the
\* fingerprint of the kind with an empty stack trace.
C15_FingerprintOfFirstFiveNonNative ==
  ppc = "done" =>
    /\ fingerprint = calculate_fingerprint(exception_type, KeyFrames(stack_trace))
    /\ SelectSeq(stack_trace, NonNative) = <<>> =>
         fingerprint = calculate_fingerprint(exception_type, <<>>)

\* The fingerprint of a stack trace with a native frame among the first
\* non-native ones and with more than 5 non-native frames, one of them
\* without a line number.
C15_Witness ==
  /\ ppc = "done"
  /\ Len(SelectSeq(stack_trace, NonNative)) > MaxFingerprintFrames
  /\ stack_trace[2].is_native
  /\ stack_trace[1].line_number = None
  /\ fingerprint # <<>>

\* All symbols of a backtrace in order, most recent first.
RECURSIVE Flatten(_)
Flatten(trace) == IF trace = <<>> THEN <<>> ELSE Head(trace) \o Flatten(Tail(trace))

NotInternal(symbol) == ~IsInternal(symbol)

\* The symbols that survive filtering, in order.
KeptSymbols(trace) == SelectSeq(Flatten(trace), NotInternal)

\* C16: symbolization returns at most 50 frames: the frames of the first
\* kept symbols, most recent first, all of them when at most 50 symbols
\* survive filtering and exactly 50 when more do.
C16_AtMostFiftyFrames ==
  ppc = "done" =>
    LET kept == KeptSymbols(bt)
        n == Min(Len(kept), MaxFrames)
    IN /\ Len(stack_trace) <= MaxFrames
       /\ Len(stack_trace) = n
       /\ \A i \in 1..n : stack_trace[i] = StackFrameOf(kept[i])
       /\ Len(kept) > MaxFrames => Len(stack_trace) = MaxFrames

\* A backtrace with inlined symbols and filtered symbols of which more than
\* 50 survive, cut to 50 frames.
C16_Witness ==
  /\ ppc = "done"
  /\ Len(KeptSymbols(bt)) > MaxFrames
  /\ Len(KeptSymbols(bt)) < Len(Flatten(bt))
  /\ Len(bt[1]) = MaxInlined
  /\ Len(stack_trace) = MaxFrames

\* C17: after init with a non-empty API key (and a URL that parses) the
\* background reconnect loop stays alive once the agent is started: it is
\* connecting, registering, reading or waiting, or has exhausted its retries;
\* it is never cancelled.
C17_ReconnectLoopStaysAlive ==
  (AGENT # None /\ started /\ ~config.api_key_empty /\ config.url_ok) =>
     tpc \in {"connecting", "registering", "reading", "sleeping", "exhausted"}

\* C18: when the read loop has declared the connection dead (peer close or
\* read error), nothing more is enqueued to or written on that connection,
\* and its sender and heartbeat tasks have both ended when the reconnect loop
\* begins its next connection attempt.
C18_DutiesStopWithReadLoop ==
  [][(lastEnd \in {"closed", "error"}) =>
       (/\ enq'[nconn] = enq[nconn]
        /\ wire'[nconn] = wire[nconn]
        /\ (tpc = "sleeping" /\ tpc' = "connecting") =>
              (senderTask[nconn] = "done" /\ hbTask[nconn] = "done"))]_vars

\* C19: an "error" message with code auth_error or invalid_api_key ends the
\* connection as a failed attempt: the published sender is cleared, the
\* failure counter is not reset but incremented, and the loop waits or gives
\* up as after any failure; from then on nothing more is written on that
\* connection.  An "error" message with another code leaves the connection up.
C19_AuthErrorTearsDown ==
  [][/\ (tpc = "reading" /\ lastEnd' = "auth") =>
          /\ sender_slot' = None
          /\ ~connected'
          /\ reconnect_attempts' = reconnect_attempts + 1
          /\ tpc' = IF GiveUp(reconnect_attempts') THEN "exhausted" ELSE "sleeping"
     /\ lastEnd = "auth" => wire'[nconn] = wire[nconn]
     /\ (lastMsg' = "error_other" /\ lastMsg' # lastMsg) =>
          (tpc' = "reading" /\ connected' /\ sender_slot' = sender_slot
           /\ wsState' = wsState)]_vars

\* C20: on every connection the registration message is the first message
\* written: whatever a wire holds starts with it, and heartbeat and exception
\* messages only follow it.
C20_RegisterWrittenFirst ==
  \A c \in ConnIds :
    wire[c] # <<>> =>
       /\ wire[c][1] = RegisterMsg
       /\ \A i \in 2..Len(wire[c]) : wire[c][i][1] \in {"heartbeat", "exception"}

\* A capture was made and a heartbeat was written on a connection, after
\* its registration message.
C20_Witness ==
  /\ nconn > 0
  /\ Len(wire[nconn]) >= 2
  /\ wire[nconn][1] = RegisterMsg
  /\ wire[nconn][2][1] = "heartbeat"
  /\ nextId > 0

\* ------------------------------------------------- lib.rs, a writing thread
\* The n-th value a writing thread stores: set_context({"a": n}) and
\* set_user(Some(n), None, None); 0 is the empty mapping of Agent::new.
CtxVersion(m) == IF "a" \in DOMAIN m THEN m["a"][2] ELSE 0
UserVersion(u) == IF "id" \in DOMAIN u THEN u["id"] ELSE 0

\* lib.rs:115-118  the writing thread calls set_context with its next value,
\* after the set_user of the value before.
WriterSetContext ==
  /\ CtxVersion(custom_context) = UserVersion(user)
  /\ CtxVersion(custom_context) < MaxVal
  /\ SetContext([k \in {"a"} |-> JNum(CtxVersion(custom_context) + 1)])

\* lib.rs:121-133  then it calls set_user with the same value.
WriterSetUser ==
  /\ CtxVersion(custom_context) = UserVersion(user) + 1
  /\ SetUser(Some(CtxVersion(custom_context)), None, None)

\* A thread that captures, with or without explicit context, while another
\* thread calls set_context and then set_user, value after value.
NextSnap ==
  \/ \E X \in {None} \cup {Some(m) : m \in ExplicitMaps}, draw \in Draws :
       CaptureBegin(X, draw)
  \/ CaptureUser
  \/ CaptureSend
  \/ WriterSetContext
  \/ WriterSetUser

SpecSnap == InitRateOne /\ [][NextSnap]_vars

\* The stored pair of mappings is, at every instant, the writer's n-th
\* context with its n-th or (n-1)-th user mapping.
WriterPairs(c, u) == CtxVersion(c) - UserVersion(u) \in {0, 1}

\* C21: the custom context and the user mapping merged into one record are
\* the pair that was stored at one instant: with a thread that writes the
\* context and later the user mapping, a record never holds the custom
\* context of before a set_context with the user mapping of a later set_user.
C21_SnapshotOfOneInstant ==
  cpc = "send" => WriterPairs(cap.seenC, cap.seenU)

\* ------------------------------------------------------ lib.rs, panic hook
\* lib.rs:138-159  a host thread panics and the hook installed by start runs:
\* with the global agent set it builds a record with capture::capture_panic
\* and hands it to send_exception (transport.rs:231-244); with no global
\* agent it only prints the panic message.
PanicHook ==
  /\ hooks > 0
  /\ panics < MaxPanics
  /\ panics' = panics + 1
  /\ IF IsSome(AGENT)
     THEN LET sender == SenderRead
              queued == IsSome(sender) /\ senderTask[Unwrap(sender)] # "done"
                                       /\ wsState[Unwrap(sender)] # "dropped"
          IN /\ nextId' = nextId + 1
             /\ chan' = IF queued
                        THEN [chan EXCEPT ![Unwrap(sender)] =
                                Append(@, ExceptionMsg(nextId + 1, Disconnected))]
                        ELSE chan
             /\ enq' = IF queued
                       THEN [enq EXCEPT ![Unwrap(sender)] =
                               Append(@, ExceptionMsg(nextId + 1, Disconnected))]
                       ELSE enq
             /\ lastDisc' = IF Disconnected THEN nconn ELSE lastDisc
     ELSE UNCHANGED <<nextId, chan, enq, lastDisc>>
  /\ UNCHANGED <<cpc, cap, captureCalls>>
  /\ UNCHANGED <<wire, wsState, senderTask, hbTask, hbCount>>
  /\ UNCHANGED <<config, started, stopped, self_sender, self_connected, hooks,
                 AGENT, ipc, rt, threads, pureVars>>
  /\ UNCHANGED <<ctxVars, taskVars>>

\* The host holds an Agent built with Agent::new, or one thread calls init;
\* every configuration.
InitPanic ==
  /\ InitPure
  /\ InitAgentState
  /\ \/ /\ config \in Configs
        /\ ipc = [c \in Inits |-> Returned]
     \/ /\ config = NoConfig
        /\ \E cfg \in Configs :
             ipc = [c \in Inits |-> IF c = 1 THEN [pc |-> "ready", cfg |-> cfg]
                                    ELSE Returned]

\* Agent::start called by the host on the Agent it holds.
HostStart ==
  /\ AGENT = None
  /\ \A c \in Inits : ipc[c] = Returned
  /\ Start

\* An agent started by the host or by init, host threads that call
\* capture_error and that panic, and the transport.
NextPanic ==
  \/ HostStart
  \/ \E c \in Inits : InitSet(c)
  \/ \E c \in Inits : InitSpawn(c)
  \/ ThreadStart
  \/ RuntimeDrop
  \/ \E draw \in Draws : CaptureBegin(None, draw)
  \/ CaptureUser
  \/ CaptureSend
  \/ PanicHook
  \/ TransportStep

SpecPanic == InitPanic /\ [][NextPanic]_vars

\* C22: every record handed to the transport has passed the sampling
\* decision: with sampling rate 0.0 (or below) no record is built and handed
\* to send_exception, neither by capture_error nor by the panic hook, and
\* none is enqueued.
C22_SampledBeforeTransport ==
  config.sampling_rate <= 0 =>
     /\ nextId = 0
     /\ lastDisc = 0 - 1
     /\ \A c \in ConnIds : ~HasException(enq[c], TRUE) /\ ~HasException(enq[c], FALSE)

\* C23: once start has installed the hook, every panic builds a record and
\* hands it to the transport, whether or not the global agent is set.
C23_EveryAbortBuildsRecord ==
  [][panics' # panics => nextId' = nextId + 1]_vars

\* transport.rs:247-249  Connection::is_connected
is_connected == self_connected

\* C24: is_connected returns true exactly when the background task holds an
\* open connection and disconnect has not been called: true after a
\* successful connect, false once the connection is lost, the retries are
\* exhausted or the agent is stopped.
C24_IsConnectedTracksConnection ==
  is_connected <=> (connected /\ ~stopped)

\* C25: every frame produced by symbolization is source_available only if
\* it is not native and has a file path, and a frame without a file path is
\* native and not source_available.
C25_SourceAvailableOnlyResolvedNonNative ==
  ppc = "done" =>
    \A i \in 1..Len(stack_trace) :
      LET frame == stack_trace[i]
      IN /\ frame.source_available => (~frame.is_native /\ IsSome(frame.file_path))
         /\ ~IsSome(frame.file_path) => (frame.is_native /\ ~frame.source_available)

\* A symbolized stack with a frame without a file path, a frame of the
\* registry and a frame of the application, whose source is available.
C25_Witness ==
  /\ ppc = "done"
  /\ \E i \in 1..Len(stack_trace) :
       ~IsSome(stack_trace[i].file_path) /\ stack_trace[i].is_native
  /\ \E i \in 1..Len(stack_trace) :
       IsSome(stack_trace[i].file_path) /\ stack_trace[i].is_native
  /\ \E i \in 1..Len(stack_trace) : stack_trace[i].source_available

\* ------------------------------------------- transport.rs, successive connections
DutyConnIds == 1..MaxReconn

\* A started agent with sampling rate 1.0 whose endpoint accepts MaxReconn
\* connections.
InitDuties ==
  /\ config \in Configs
  /\ config.sampling_rate = RateUnit
  /\ ipc = [c \in Inits |-> Returned]
  /\ InitPure
  /\ InitAgentFields
  /\ InitConns(DutyConnIds)

\* The background task, the tasks of every connection, and the network.
NextDuties ==
  \/ Start
  \/ ConnectFail
  \/ ConnectOkUpTo(MaxReconn)
  \/ RegisterSent
  \/ RegisterFail
  \/ \E kind \in {"registered", "error_other"} : RecvInfo(kind)
  \/ RecvAuthError
  \/ \E kind \in {"closed", "error"} : ReadEnds(kind)
  \/ WakeUp
  \/ \E c \in DutyConnIds : SenderStep(c)
  \/ \E c \in DutyConnIds : HeartbeatTick(c)
  \/ \E c \in DutyConnIds : NetDown(c)

SpecDuties == InitDuties /\ [][NextDuties]_vars

\* The connections whose sender task, or whose heartbeat task, is alive.
LiveSenders == {c \in DOMAIN senderTask : senderTask[c] = "run"}
LiveHeartbeats == {c \in DOMAIN hbTask : hbTask[c] = "run"}

\* C26: at most one connection has live duties: there is never more than
\* one sender task and one heartbeat task alive, and the tasks of every
\* earlier connection have ended when a later connection is opened.
C26_OneConnectionHasLiveDuties ==
  [][/\ Cardinality(LiveSenders') <= 1
     /\ Cardinality(LiveHeartbeats') <= 1
     /\ nconn' > nconn => (LiveSenders = {} /\ LiveHeartbeats = {})]_vars

====
